---- MODULE Spec2Model ----
(***************************************************************************)
(* Model of optiontakeprofitui_pandas.py: the Black-Scholes pricer, the    *)
(* Monte Carlo barrier simulator and the "Run Simulation" handler of the   *)
(* Tk application that calls both.                                         *)
(*                                                                         *)
(* Floating-point numbers are fixed-point integers with FP units to 1.0;   *)
(* every arithmetic operation rounds to that grid (floor), as a double     *)
(* rounds to 53 bits.  A float value is tagged: Num(v), NaN or None, so    *)
(* that "absent", "not a number" and 0.0 are three different values.       *)
(*                                                                         *)
(* NumPy's process-wide generator (np.random) is a generator with a short  *)
(* cycle: its state is a position in 0..StreamPeriod-1, a draw returns     *)
(* gen[position] and advances the position.  The table gen is not known to *)
(* the model: it is chosen arbitrarily in the initial state and never      *)
(* changes, as the generator is a deterministic function of its state.     *)
(***************************************************************************)
EXTENDS Integers, Sequences, FiniteSets, TLC

\* ------------------------------------------------------------------ bounds
\* Fixed-point units to 1.0.
FP == 100
\* Largest n_paths and n_steps a caller passes.
MaxPaths == 2
MaxSteps == 3
\* Length of the generator's cycle.
StreamPeriod == 4

\* np.random.seed(42)
SeedValue == 42

\* ------------------------------------------------- floating-point values
Num(v) == <<"num", v>>
NaN == <<"nan">>
None == <<"None">>
IsNum(x) == Len(x) = 2
Val(x) == x[2]

\* a / b on the grid for a divisor of either sign (b # 0).
Div(a, b) == IF b < 0 THEN (-a) \div (-b) ELSE a \div b
FMul(a, b) == (a * b) \div FP
FDiv(a, b) == Div(a * FP, b)

RECURSIVE SqrtSearch(_, _, _)
SqrtSearch(n, lo, hi) ==
    IF lo >= hi THEN lo
    ELSE LET mid == (lo + hi + 1) \div 2
         IN  IF mid * mid <= n THEN SqrtSearch(n, mid, hi)
                               ELSE SqrtSearch(n, lo, mid - 1)
\* math.sqrt / np.sqrt of a value >= 0.
FSqrt(x) == SqrtSearch(x * FP, 0, x + FP)

\* math.exp / np.exp: the series 1 + x + x^2/2 + x^3/6 on the grid.
FExp(x) == FP + x + (FMul(x, x) \div 2) + (FMul(FMul(x, x), x) \div 6)

\* math.log of a value > 0: 2 * (y + y^3/3 + y^5/5), y = (x-1)/(x+1).
FLog(x) ==
    LET y  == FDiv(x - FP, x + FP)
        y3 == FMul(FMul(y, y), y)
        y5 == FMul(FMul(y3, y), y)
    IN  2 * (y + (y3 \div 3) + (y5 \div 5))

\* math.erf: (2/sqrt(pi)) * (x - x^3/3 + x^5/10 - x^7/42).
FErf(x) ==
    LET x3 == FMul(FMul(x, x), x)
        x5 == FMul(FMul(x3, x), x)
        x7 == FMul(FMul(x5, x), x)
    IN  FMul((113 * FP) \div 100, x - (x3 \div 3) + (x5 \div 10) - (x7 \div 42))

RECURSIVE Sum(_)
Sum(s) == IF s = <<>> THEN 0 ELSE Head(s) + Sum(Tail(s))

\* ndarray.mean() / np.mean of a one-dimensional array of floats: NaN (with
\* a RuntimeWarning, not an exception) for an empty array.
Mean(s) == IF Len(s) = 0 THEN NaN ELSE Num(Sum(s) \div Len(s))

\* float * float with NaN propagating.
NMul(x, f) == IF IsNum(x) THEN Num(FMul(Val(x), f)) ELSE x

\* ------------------------------------------------------ call outcomes
Return(v) == [status |-> "return", exc |-> "", value |-> v]
Raise(e) == [status |-> "raise", exc |-> e, value |-> <<>>]
NoResult == [status |-> "none", exc |-> "", value |-> <<>>]

\* ------------------------------------------------- black_scholes_call
N(x) == (FP + FErf(FDiv(x, FSqrt(2 * FP)))) \div 2

black_scholes_call(S, K, T, r, sigma, q) ==
    IF K = 0 THEN Raise("ZeroDivisionError")
    ELSE IF FDiv(S, K) <= 0 THEN Raise("ValueError")
    ELSE IF T < 0 THEN Raise("ValueError")
    ELSE IF FMul(sigma, FSqrt(T)) = 0 THEN Raise("ZeroDivisionError")
    ELSE LET sqT == FSqrt(T)
             d1 == FDiv(FLog(FDiv(S, K))
                        + FMul(r - q + (FMul(sigma, sigma) \div 2), T),
                        FMul(sigma, sqT))
             d2 == d1 - FMul(sigma, sqT)
         IN  Return(Num(FMul(FMul(S, FExp(FMul(-q, T))), N(d1))
                        - FMul(FMul(K, FExp(FMul(-r, T))), N(d2))))

\* ------------------------------------------- monte_carlo_option_hit
\* dt = T / n_steps
StepSize(T, n_steps) ==
    IF n_steps = 0 THEN Raise("ZeroDivisionError") ELSE Return(Div(T, n_steps))

\* The k-th value (k >= 0) drawn from the generator at position pos.
DrawAt(g, pos, k) == g[(pos + k) % StreamPeriod]

\* np.random.normal(size=(n_paths, n_steps)) from position pos: the matrix,
\* filled row by row.
NormalMatrix(g, pos, n_paths, n_steps) ==
    [i \in 1..n_paths |->
        [t \in 1..n_steps |-> DrawAt(g, pos, (i - 1) * n_steps + (t - 1))]]

\* S[:, t] = S[:, t-1] * np.exp((r - q - 0.5*sigma**2)*dt + sigma*np.sqrt(dt)*Z[:, t])
StepValue(prev, r, q, sigma, dt, z) ==
    FMul(prev, FExp(FMul(r - q - (FMul(sigma, sigma) \div 2), dt)
                    + FMul(FMul(sigma, FSqrt(dt)), z)))

RECURSIVE PathValues(_, _, _, _, _, _, _)
\* One row of S: column 0 is S0, column t follows from column t-1.
PathValues(S0, r, q, sigma, dt, zrow, n) ==
    IF n = 1 THEN <<S0>>
    ELSE LET before == PathValues(S0, r, q, sigma, dt, zrow, n - 1)
         IN  Append(before, StepValue(before[n - 1], r, q, sigma, dt, zrow[n]))

Paths(a, dt, Zm) ==
    [i \in 1..Len(Zm) |->
        PathValues(a.S0, a.r, a.q, a.sigma, dt, Zm[i], a.n_steps)]

\* Variant: the comparison turned around.
AtOrBelow(v, threshold) == v <= threshold

\* S >= threshold, one cell.
AtOrAbove(v, threshold) == v >= threshold

\* Variant: the barrier check leaves out column 0, the initial value.
HitMaskFromStepOne(row, threshold) ==
    \E t \in 2..Len(row) : AtOrAbove(row[t], threshold)

\* np.any(S >= threshold, axis=1), one row.
HitMask(row, threshold) == \E t \in 1..Len(row) : AtOrAbove(row[t], threshold)

\* Variant: the index of the last crossing instead of the first.
ArgMaxLast(row, threshold) ==
    IF \E t \in 1..Len(row) : AtOrAbove(row[t], threshold)
    THEN (CHOOSE t \in 1..Len(row) :
            /\ AtOrAbove(row[t], threshold)
            /\ \A u \in (t + 1)..Len(row) : ~AtOrAbove(row[u], threshold)) - 1
    ELSE 0

\* np.argmax(S >= threshold, axis=1), one row: the 0-based index of the first
\* True, and 0 for a row with none.
ArgMax(row, threshold) ==
    IF HitMask(row, threshold)
    THEN (CHOOSE t \in 1..Len(row) :
            /\ AtOrAbove(row[t], threshold)
            /\ \A u \in 1..(t - 1) : ~AtOrAbove(row[u], threshold)) - 1
    ELSE 0

\* Boolean indexing: the elements of s whose mask is True, in order.
RECURSIVE Select(_, _)
Select(s, mask) ==
    IF s = <<>> THEN <<>>
    ELSE IF Head(mask) THEN <<Head(s)>> \o Select(Tail(s), Tail(mask))
    ELSE Select(Tail(s), Tail(mask))

\* hit_mask.mean()
HitProb(Sm, threshold) ==
    Mean([i \in 1..Len(Sm) |-> IF HitMask(Sm[i], threshold) THEN FP ELSE 0])

\* hit_times = hit_indices[hit_mask] * dt
HitTimes(Sm, threshold, dt) ==
    LET mask == [i \in 1..Len(Sm) |-> HitMask(Sm[i], threshold)]
        idx  == [i \in 1..Len(Sm) |-> ArgMax(Sm[i], threshold)]
        hits == Select(idx, mask)
    IN  [j \in 1..Len(hits) |-> hits[j] * dt]

\* Variant: the mean's truth value decides instead of the array's size.
AvgHitTimeTruthy(Sm, threshold, dt) ==
    LET hit_times == [j \in 1..Len(Sm) |->
                         IF \E t \in 1..Len(Sm[j]) : Sm[j][t] >= threshold
                         THEN dt * ((CHOOSE t \in 1..Len(Sm[j]) :
                                       /\ Sm[j][t] >= threshold
                                       /\ \A u \in 1..(t - 1) : Sm[j][u] < threshold) - 1)
                         ELSE 0]
    IN  IF Sum(hit_times) # 0
        THEN Num(Sum(hit_times)
                 \div Cardinality({j \in 1..Len(Sm) :
                                     \E t \in 1..Len(Sm[j]) : Sm[j][t] >= threshold}))
        ELSE None

\* avg_hit_time = hit_times.mean() if hit_times.size > 0 else None
AvgHitTime(Sm, threshold, dt) ==
    LET hit_times == HitTimes(Sm, threshold, dt)
    IN  IF Len(hit_times) > 0 THEN Mean(hit_times) ELSE None

\* Variant: a hitting path pays its final value less the strike.
PayoffAtExpiry(Sm, threshold, K) ==
    [i \in 1..Len(Sm) |->
        IF \E t \in 1..Len(Sm[i]) : Sm[i][t] >= threshold
        THEN Sm[i][Len(Sm[i])] - K ELSE 0]

\* payoff = np.where(hit_mask, threshold - K, 0)
Payoff(Sm, threshold, K) ==
    [i \in 1..Len(Sm) |-> IF HitMask(Sm[i], threshold) THEN threshold - K ELSE 0]

\* PV = np.mean(payoff) * math.exp(-r * T)
PresentValue(Sm, threshold, K, r, T) ==
    NMul(Mean(Payoff(Sm, threshold, K)), FExp(FMul(-r, T)))

\* Lines 29-37: the returned triple.
Reduce(a, dt, Sm) ==
    <<HitProb(Sm, a.threshold),
      AvgHitTime(Sm, a.threshold, dt),
      PresentValue(Sm, a.threshold, a.K, a.r, a.T)>>

\* Lines 20-37 run from start to end with no other user of the generator:
\* the outcome of monte_carlo_option_hit for generator g.
monte_carlo_option_hit(g, a) ==
    LET step == StepSize(a.T, a.n_steps)
    IN  IF step.status = "raise" THEN step
        ELSE IF a.n_paths < 0 \/ a.n_steps < 0 THEN Raise("ValueError")
        ELSE LET Zm == NormalMatrix(g, SeedValue % StreamPeriod,
                                    a.n_paths, a.n_steps)
             IN  Return(Reduce(a, step.value, Paths(a, step.value, Zm)))

\* Truth value of "if avg_hit_time": None and 0.0 are false, any other float
\* (NaN included) is true.
Truthy(x) == x # None /\ x # Num(0)

\* f"{v:.2f}": the number of hundredths nearest to v.
Fmt2(v) == (v * 100 + FP \div 2) \div FP

\* Line 161: the "Avg Hit Time" line.
AvgHitTimeLine(avg_hit_time) ==
    IF Truthy(avg_hit_time)
    THEN <<"yrs", IF IsNum(avg_hit_time) THEN Fmt2(Val(avg_hit_time)) ELSE 0>>
    ELSE <<"N/A">>

\* Lines 150-163: the block written for a returned triple; the division by
\* C0 raises when the fair value is 0.0.
ReportBlock(a, u, triple) ==
    LET diff == u.midpoint - u.C0
        absd == IF diff < 0 THEN -diff ELSE diff
    IN  IF u.C0 = 0 THEN [kind |-> "error", exc |-> "ZeroDivisionError"]
        ELSE [kind      |-> "report",
              verdict   |-> IF absd * 100 < FP THEN "FAIRLY PRICED"
                            ELSE IF diff > 0 THEN "UNDERVALUED" ELSE "OVERVALUED",
              diff      |-> Fmt2(diff),
              percent   |-> Fmt2(FDiv(100 * diff, u.C0)),
              midpoint  |-> Fmt2(u.midpoint),
              fair      |-> Fmt2(u.C0),
              threshold |-> Fmt2(a.threshold),
              pv        |-> IF IsNum(triple[3]) THEN Fmt2(Val(triple[3])) ELSE 0,
              hit       |-> IF IsNum(triple[1]) THEN Fmt2(Val(triple[1]) * 100) ELSE 0,
              avg       |-> AvgHitTimeLine(triple[2]),
              expiry    |-> Fmt2(a.T)]

\* ----------------------------------------------------------------- inputs
ZVals == {-FP, FP}
Spot == 100 * FP
Strikes == {90 * FP, 110 * FP}
Strike == 105 * FP
Expiries == {0, FP}
Rate == (5 * FP) \div 100
Dividend == (1 * FP) \div 100
Vols == {0, (30 * FP) \div 100}
Thresholds == {90 * FP, 110 * FP, 400 * FP}
PathCounts == -1..MaxPaths
StepCounts == -1..MaxSteps

\* Parameter sets of a direct call of monte_carlo_option_hit.
ArgSet ==
    [S0 : {Spot}, K : {Strike}, T : Expiries, r : {Rate}, sigma : Vols,
     threshold : Thresholds, q : {Dividend},
     n_paths : PathCounts, n_steps : StepCounts]

\* Parameter sets of a direct call of black_scholes_call (the simulation
\* fields are not parameters of it).
PriceArgSet ==
    [S0 : {Spot}, K : Strikes, T : Expiries, r : {Rate}, sigma : Vols,
     threshold : {0}, q : {Dividend}, n_paths : {0}, n_steps : {0}]

\* Valid, independent parameter sets for calls made from two threads.
ConcArgSet ==
    [S0 : {Spot}, K : {Strike}, T : {FP}, r : {Rate}, sigma : {(30 * FP) \div 100},
     threshold : {110 * FP}, q : {Dividend},
     n_paths : 1..MaxPaths, n_steps : 2..MaxSteps]

\* The form's fields as run() reads them; date is the expiration field:
\* malformed, not in the future, or a year ahead.
EntrySet ==
    [S0 : {Spot}, K : Strikes, r : {Rate}, q : {Dividend}, sigma : Vols,
     bid : {9 * FP}, ask : {11 * FP}, date : {"malformed", "past", "future"},
     multiple : {2 * FP, 12 * FP}]

\* def monte_carlo_option_hit(..., n_paths=20000, n_steps=126): the defaults,
\* scaled to the model's sizes.
DefaultPaths == MaxPaths
DefaultSteps == MaxSteps

Threads == {1, 2}
MainThread == 1

\* ------------------------------------------------------------------ state
VARIABLES
    gen,    \* the generator's output at each position of its cycle
    rng,    \* np.random's state: the position in the cycle
    pc,     \* per thread: idle, seed, draw, compute, done
    call,   \* per thread: the function called, its caller and its arguments
    dt,     \* per thread: local dt
    Z,      \* per thread: local Z
    S,      \* per thread: local S
    res,    \* per thread: the outcome of the call (returned value or exception)
    prev,   \* per thread: the threshold and the outcome of the previous call,
            \* while the caller repeats that call with only the threshold changed
    ui,     \* run()'s locals bid, ask, midpoint, C0 during its simulation
    txt     \* the block the last handler wrote to the text box

vars == <<gen, rng, pc, call, dt, Z, S, res, prev, ui, txt>>

NoCall == [fn |-> "", caller |-> "", a |-> <<>>]
NoUi == [bid |-> 0, ask |-> 0, midpoint |-> 0, C0 |-> 0]
NoText == [kind |-> "none"]
NoPrev == [threshold |-> 0, res |-> NoResult]

\* Variant: the generator is not reseeded.
SeedStateKept == rng

\* np.random.seed(42): the state the seed puts the generator in.
SeedState == SeedValue % StreamPeriod

Init ==
    /\ gen \in [0..(StreamPeriod - 1) -> ZVals]
    /\ rng \in 0..(StreamPeriod - 1)
    /\ pc = [p \in Threads |-> "idle"]
    /\ call = [p \in Threads |-> NoCall]
    /\ dt = [p \in Threads |-> 0]
    /\ Z = [p \in Threads |-> <<>>]
    /\ S = [p \in Threads |-> <<>>]
    /\ res = [p \in Threads |-> NoResult]
    /\ prev = [p \in Threads |-> NoPrev]
    /\ ui = NoUi
    /\ txt = NoText

\* Lines 20-21: the call and dt = T / n_steps.
Enter(p, caller, a) ==
    LET step == StepSize(a.T, a.n_steps)
    IN  /\ call' = [call EXCEPT ![p] = [fn |-> "mc", caller |-> caller, a |-> a]]
        /\ Z' = [Z EXCEPT ![p] = <<>>]
        /\ S' = [S EXCEPT ![p] = <<>>]
        /\ IF step.status = "raise"
           THEN /\ pc' = [pc EXCEPT ![p] = "done"]
                /\ res' = [res EXCEPT ![p] = step]
                /\ dt' = [dt EXCEPT ![p] = 0]
           ELSE /\ pc' = [pc EXCEPT ![p] = "seed"]
                /\ res' = [res EXCEPT ![p] = NoResult]
                /\ dt' = [dt EXCEPT ![p] = step.value]

\* A direct call of monte_carlo_option_hit(S0, K, T, r, sigma, threshold, q,
\* n_paths, n_steps).
Invoke(p, a) ==
    /\ pc[p] = "idle"
    /\ Enter(p, "direct", a)
    /\ prev' = [prev EXCEPT ![p] = NoPrev]
    /\ ui' = NoUi
    /\ txt' = NoText
    /\ UNCHANGED <<gen, rng>>

\* A direct call of black_scholes_call(S, K, T, r, sigma, q).
Price(p, a) ==
    /\ pc[p] = "idle"
    /\ call' = [call EXCEPT ![p] = [fn |-> "bs", caller |-> "direct", a |-> a]]
    /\ res' = [res EXCEPT ![p] =
                  black_scholes_call(a.S0, a.K, a.T, a.r, a.sigma, a.q)]
    /\ pc' = [pc EXCEPT ![p] = "done"]
    /\ prev' = [prev EXCEPT ![p] = NoPrev]
    /\ dt' = [dt EXCEPT ![p] = 0]
    /\ Z' = [Z EXCEPT ![p] = <<>>]
    /\ S' = [S EXCEPT ![p] = <<>>]
    /\ ui' = NoUi
    /\ txt' = NoText
    /\ UNCHANGED <<gen, rng>>

\* Line 22: np.random.seed(42).
Seed(p) ==
    /\ pc[p] = "seed"
    /\ rng' = SeedState
    /\ pc' = [pc EXCEPT ![p] = "draw"]
    /\ UNCHANGED <<gen, call, dt, Z, S, res, prev, ui, txt>>

\* Line 23: Z = np.random.normal(size=(n_paths, n_steps)); a negative
\* dimension raises ValueError.
Draw(p) ==
    LET a == call[p].a
    IN  /\ pc[p] = "draw"
        /\ IF a.n_paths < 0 \/ a.n_steps < 0
           THEN /\ res' = [res EXCEPT ![p] = Raise("ValueError")]
                /\ pc' = [pc EXCEPT ![p] = "done"]
                /\ UNCHANGED <<rng, Z>>
           ELSE /\ Z' = [Z EXCEPT ![p] =
                            NormalMatrix(gen, rng, a.n_paths, a.n_steps)]
                /\ rng' = (rng + a.n_paths * a.n_steps) % StreamPeriod
                /\ pc' = [pc EXCEPT ![p] = "compute"]
                /\ UNCHANGED res
        /\ UNCHANGED <<gen, call, dt, S, prev, ui, txt>>

\* Lines 24-37: the paths, the reduction and the return.
Compute(p) ==
    LET a  == call[p].a
        Sm == Paths(a, dt[p], Z[p])
    IN  /\ pc[p] = "compute"
        /\ S' = [S EXCEPT ![p] = Sm]
        /\ res' = [res EXCEPT ![p] = Return(Reduce(a, dt[p], Sm))]
        /\ pc' = [pc EXCEPT ![p] = "done"]
        /\ UNCHANGED <<gen, rng, call, dt, Z, prev, ui, txt>>

\* The direct caller, having received the outcome, calls the simulator again
\* with the same arguments and the threshold given.
Again(p, threshold) ==
    /\ pc[p] = "done"
    /\ call[p].caller = "direct"
    /\ call[p].fn = "mc"
    /\ prev' = [prev EXCEPT ![p] =
                   [threshold |-> call[p].a.threshold, res |-> res[p]]]
    /\ Enter(p, "direct", [call[p].a EXCEPT !.threshold = threshold])
    /\ UNCHANGED <<gen, rng, ui, txt>>

\* The direct caller receives the outcome and is done with it.
Finish(p) ==
    /\ pc[p] = "done"
    /\ call[p].caller = "direct"
    /\ pc' = [pc EXCEPT ![p] = "idle"]
    /\ prev' = [prev EXCEPT ![p] = NoPrev]
    /\ call' = [call EXCEPT ![p] = NoCall]
    /\ res' = [res EXCEPT ![p] = NoResult]
    /\ dt' = [dt EXCEPT ![p] = 0]
    /\ Z' = [Z EXCEPT ![p] = <<>>]
    /\ S' = [S EXCEPT ![p] = <<>>]
    /\ UNCHANGED <<gen, rng, ui, txt>>

\* OptionPricerApp.run, lines 116-147: the "Run Simulation" button up to the
\* call of the simulator.  The fields hold numbers (float() does not fail);
\* the elapsed time of line 163 is not part of the block.
Run(e) ==
    LET midpoint  == (e.bid + e.ask) \div 2
        T         == IF e.date = "future" THEN FP ELSE 0
        threshold == FMul(midpoint, e.multiple)
        C0        == black_scholes_call(e.S0, e.K, T, e.r, e.sigma, e.q)
        a         == [S0 |-> e.S0, K |-> e.K, T |-> T, r |-> e.r,
                      sigma |-> e.sigma, threshold |-> threshold, q |-> e.q,
                      n_paths |-> DefaultPaths, n_steps |-> DefaultSteps]
    IN  /\ pc[MainThread] = "idle"
        /\ IF e.date = "malformed"
           THEN /\ txt' = [kind |-> "bad date"]
                /\ UNCHANGED <<pc, call, dt, Z, S, res, prev, ui>>
           ELSE IF T <= 0
           THEN /\ txt' = [kind |-> "expired"]
                /\ UNCHANGED <<pc, call, dt, Z, S, res, prev, ui>>
           ELSE IF C0.status = "raise"
           THEN /\ txt' = [kind |-> "error", exc |-> C0.exc]
                /\ UNCHANGED <<pc, call, dt, Z, S, res, prev, ui>>
           ELSE /\ Enter(MainThread, "run", a)
                /\ prev' = [prev EXCEPT ![MainThread] = NoPrev]
                /\ ui' = [bid |-> e.bid, ask |-> e.ask, midpoint |-> midpoint,
                          C0 |-> Val(C0.value)]
                /\ txt' = NoText
        /\ UNCHANGED <<gen, rng>>

\* OptionPricerApp.run, lines 148-168: the report of the returned triple, or
\* the except clause's message.
Report ==
    LET p == MainThread
    IN  /\ pc[p] = "done"
        /\ call[p].caller = "run"
        /\ txt' = IF res[p].status = "raise"
                  THEN [kind |-> "error", exc |-> res[p].exc]
                  ELSE ReportBlock(call[p].a, ui, res[p].value)
        /\ pc' = [pc EXCEPT ![p] = "idle"]
        /\ prev' = [prev EXCEPT ![p] = NoPrev]
        /\ call' = [call EXCEPT ![p] = NoCall]
        /\ res' = [res EXCEPT ![p] = NoResult]
        /\ dt' = [dt EXCEPT ![p] = 0]
        /\ Z' = [Z EXCEPT ![p] = <<>>]
        /\ S' = [S EXCEPT ![p] = <<>>]
        /\ ui' = NoUi
        /\ UNCHANGED <<gen, rng>>

\* The application: one thread (Tk's main loop) runs the handler, and the two
\* functions are also called directly.
Next ==
    \/ \E e \in EntrySet : Run(e)
    \/ \E a \in ArgSet : Invoke(MainThread, a)
    \/ \E a \in PriceArgSet : Price(MainThread, a)
    \/ Seed(MainThread)
    \/ Draw(MainThread)
    \/ Compute(MainThread)
    \/ \E threshold \in Thresholds : Again(MainThread, threshold)
    \/ Finish(MainThread)
    \/ Report

Spec == Init /\ [][Next]_vars

\* Two threads of one process call the simulator without synchronization.
NextConc ==
    \E p \in Threads :
        \/ \E a \in ConcArgSet : Invoke(p, a)
        \/ Seed(p)
        \/ Draw(p)
        \/ Compute(p)
        \/ Finish(p)

SpecConc == Init /\ [][NextConc]_vars

\* ================================================================ claims
\* A call of the simulator by thread p has ended (returned or raised).
Ended(p) == pc[p] = "done" /\ call[p].fn = "mc"
\* A call of the simulator by thread p has returned its triple.
Returned(p) == Ended(p) /\ res[p].status = "return"
\* The paths of S[p] with a value at or above the threshold.
Hitters(p) ==
    {i \in 1..Len(S[p]) :
        \E t \in 1..Len(S[p][i]) : S[p][i][t] >= call[p].a.threshold}
\* The 0-based index of the first value of path i at or above the threshold.
FirstCrossing(p, i) ==
    CHOOSE k \in 0..(Len(S[p][i]) - 1) :
        /\ S[p][i][k + 1] >= call[p].a.threshold
        /\ \A j \in 0..(k - 1) : S[p][i][j + 1] < call[p].a.threshold
RECURSIVE SumOver(_, _)
\* The sum of f[i] over the finite set I.
SumOver(f, I) ==
    IF I = {} THEN 0
    ELSE LET i == CHOOSE x \in I : TRUE IN f[i] + SumOver(f, I \ {i})

\* C1: a call of either function with sigma = 0 or T = 0 (and, for the
\* simulator, positive n_paths and n_steps) ends by raising, with no path
\* generated and no triple returned.
C1_ZeroSigmaOrExpiryRaises ==
    \A p \in Threads :
        (/\ pc[p] = "done"
         /\ call[p].a.sigma = 0 \/ call[p].a.T = 0
         /\ call[p].fn = "mc" => (call[p].a.n_paths >= 1 /\ call[p].a.n_steps >= 1))
        => (res[p].status = "raise" /\ Z[p] = <<>> /\ S[p] = <<>>)

\* C2: a call of the simulator with n_paths <= 0 or n_steps <= 0 ends by
\* raising: it returns no triple.
C2_NonPositiveCountsFail ==
    \A p \in Threads :
        (Ended(p) /\ (call[p].a.n_paths <= 0 \/ call[p].a.n_steps <= 0))
        => res[p].status = "raise"

\* C3: whatever the interleaving of two threads' calls, each call ends with
\* the outcome it has when run alone.
C3_ConcurrentCallsIsolated ==
    \A p \in Threads :
        Ended(p) => res[p] = monte_carlo_option_hit(gen, call[p].a)

\* C4: a call repeated with the same arguments ends with the same outcome,
\* whatever state the generator was in before each of the two calls.
C4_RepeatedCallSameOutcome ==
    \A p \in Threads :
        (Ended(p) /\ prev[p] # NoPrev /\ prev[p].threshold = call[p].a.threshold)
        => res[p] = prev[p].res
C4_Witness ==
    /\ Returned(MainThread)
    /\ prev[MainThread].res = res[MainThread]
    /\ prev[MainThread].threshold = call[MainThread].a.threshold
    /\ call[MainThread].a.n_paths >= 2
    /\ call[MainThread].a.n_steps >= 2
    /\ Hitters(MainThread) # {}
    /\ Hitters(MainThread) # 1..Len(S[MainThread])
    /\ (call[MainThread].a.n_paths * call[MainThread].a.n_steps) % StreamPeriod # 0

\* C5: with n_paths >= 1 and n_steps >= 1, a threshold at or below S0 gives
\* hit_probability exactly 1.0.
C5_ThresholdAtOrBelowSpotHitsSurely ==
    \A p \in Threads :
        (/\ Returned(p)
         /\ call[p].a.n_paths >= 1
         /\ call[p].a.n_steps >= 1
         /\ call[p].a.threshold <= call[p].a.S0)
        => res[p].value[1] = Num(FP)
C5_Witness ==
    /\ Returned(MainThread)
    /\ call[MainThread].a.threshold <= call[MainThread].a.S0
    /\ res[MainThread].value[1] = Num(FP)
    /\ \E i \in 1..Len(S[MainThread]) :
          /\ Len(S[MainThread][i]) >= 2
          /\ \A t \in 2..Len(S[MainThread][i]) :
                S[MainThread][i][t] < call[MainThread].a.threshold

\* C6: with n_paths >= 1 and n_steps >= 1, avg_hit_time is None exactly when
\* no path has a value at or above the threshold; it is then neither 0 nor
\* NaN, and it is a number whenever some path hits.
C6_AvgHitTimeAbsentIffNoHit ==
    \A p \in Threads :
        (Returned(p) /\ call[p].a.n_paths >= 1 /\ call[p].a.n_steps >= 1)
        => /\ (res[p].value[2] = None) <=> (Hitters(p) = {})
           /\ Hitters(p) = {} => res[p].value[2] \notin {Num(0), NaN}
           /\ Hitters(p) # {} => IsNum(res[p].value[2])
C6_Witness ==
    /\ Returned(MainThread)
    /\ call[MainThread].a.n_paths >= 2
    /\ call[MainThread].a.n_steps >= 2
    /\ call[MainThread].a.sigma > 0
    /\ call[MainThread].a.T > 0
    /\ Hitters(MainThread) = {}
    /\ res[MainThread].value[2] = None

\* C7: on the same paths the set of hitting paths shrinks as the threshold
\* grows, and a call repeated with a threshold at least as high returns a
\* hit_probability at most as high.
C7_HitProbabilityMonotone ==
    \A p \in Threads :
        /\ (Returned(p) /\ call[p].a.n_paths >= 1)
           => \A t1, t2 \in Thresholds \cup {S[p][i][t] : i \in 1..Len(S[p]),
                                                         t \in 1..Len(S[p][1])} :
                 t1 <= t2 =>
                    /\ \A i \in 1..Len(S[p]) :
                          HitMask(S[p][i], t2) => HitMask(S[p][i], t1)
                    /\ Val(HitProb(S[p], t2)) <= Val(HitProb(S[p], t1))
        /\ (/\ Returned(p)
            /\ call[p].a.n_paths >= 1
            /\ prev[p].res.status = "return"
            /\ prev[p].threshold <= call[p].a.threshold)
           => Val(res[p].value[1]) <= Val(prev[p].res.value[1])
C7_Witness ==
    /\ Returned(MainThread)
    /\ prev[MainThread].res.status = "return"
    /\ prev[MainThread].threshold < call[MainThread].a.threshold
    /\ call[MainThread].a.n_paths >= 2
    /\ Val(res[MainThread].value[1]) < Val(prev[MainThread].res.value[1])
    /\ Val(res[MainThread].value[1]) > 0

\* C8: expected_pv is exp(-r*T) times the mean over all n_paths paths of a
\* payoff of threshold - K for a hitting path and 0 for any other, whatever
\* the hitting path's values are.
C8_ExpectedPvDiscountedMeanPayoff ==
    \A p \in Threads :
        (Returned(p) /\ call[p].a.n_paths >= 1)
        => LET a == call[p].a
               undiscounted ==
                   (Cardinality(Hitters(p)) * (a.threshold - a.K)) \div a.n_paths
           IN  res[p].value[3] = Num(FMul(undiscounted, FExp(FMul(-a.r, a.T))))
C8_Witness ==
    /\ Returned(MainThread)
    /\ Hitters(MainThread) # {}
    /\ Hitters(MainThread) # 1..Len(S[MainThread])
    /\ call[MainThread].a.threshold # call[MainThread].a.K
    /\ \E i \in Hitters(MainThread) :
          /\ S[MainThread][i][FirstCrossing(MainThread, i) + 1]
                > call[MainThread].a.threshold
          /\ S[MainThread][i][Len(S[MainThread][i])]
                # S[MainThread][i][FirstCrossing(MainThread, i) + 1]

\* C9: dt is T / n_steps, a hitting path's time is the index of its first
\* value at or above the threshold times dt, and avg_hit_time is the mean of
\* these times over the hitting paths alone.
C9_AvgHitTimeMeanOfFirstCrossings ==
    \A p \in Threads :
        (Returned(p) /\ Hitters(p) # {})
        => /\ dt[p] = call[p].a.T \div call[p].a.n_steps
           /\ res[p].value[2] =
                 Num(SumOver([i \in Hitters(p) |-> FirstCrossing(p, i) * dt[p]],
                             Hitters(p))
                     \div Cardinality(Hitters(p)))
C9_Witness ==
    /\ Returned(MainThread)
    /\ Hitters(MainThread) # {}
    /\ Hitters(MainThread) # 1..Len(S[MainThread])
    /\ dt[MainThread] > 0
    /\ \E i \in Hitters(MainThread) :
          /\ FirstCrossing(MainThread, i) >= 1
          /\ \E t \in 1..Len(S[MainThread][i]) :
                /\ t - 1 > FirstCrossing(MainThread, i)
                /\ S[MainThread][i][t] >= call[MainThread].a.threshold

\* C10: run() writes "N/A" as the average hit time only when the simulator
\* returned None, and writes a returned time of 0 as a number of years.
C10_ReportTellsAbsentFromZero ==
    [][(Report /\ txt'.kind = "report")
       => /\ (txt'.avg = <<"N/A">>) <=> (res[MainThread].value[2] = None)
          /\ (res[MainThread].value[2] = Num(0)) => (txt'.avg = <<"yrs", 0>>)]_vars

====
